---- MODULE Spec2Model ----
(***************************************************************************)
(* The session registry of src/trino-odbc-driver.py (class                 *)
(* ConnectionManager) as a state machine.  Each caller thread of the       *)
(* threaded HTTP server runs one registry method at a time; a method is    *)
(* split into steps wherever another thread can observe or change the      *)
(* registry in between: at every lock acquisition, at every backend call   *)
(* that is made while other threads may run, and at the reads of           *)
(* self.cursors that execute_query and fetch_results make after they have  *)
(* released the lock.                                                      *)
(*                                                                         *)
(* Strings are sequences of tokens.  A uuid4 string is one token (all      *)
(* uuid4 strings have the same length, so one is a prefix of another only  *)
(* if they are equal); "_" is the separator token of a cursor id.          *)
(* uuid.uuid4() is modelled as a generator that never repeats a value.     *)
(*                                                                         *)
(* Spec and FairSpec are the concurrent registry (FairSpec with fair       *)
(* scheduling).  SpecInfo and SpecCursor follow one caller and keep the    *)
(* values that get_connection_info, execute_query and fetch_results        *)
(* compute: the masked parameters, the arguments of the backend execute,   *)
(* and the pages of rows.                                                  *)
(***************************************************************************)
EXTENDS Naturals, Integers, Sequences, FiniteSets, TLC

\* Number of requests that can be in progress at the same time.
NumThreads == 2
\* Total number of registry method calls in a behaviour.
MaxCalls == 4

Threads == 1..NumThreads

VARIABLES
    connections,        \* self.connections: the set of keys (the session object of a key is named by the key)
    cursors,            \* self.cursors: the keys in insertion order (dict order); the cursor object of a key is named by the key
    connection_params,  \* self.connection_params: handle -> params
    lock,               \* self.lock: 0 when free, else the thread holding it
    nextUuid,           \* number of uuid4() values drawn so far, plus one
    calls,              \* number of method calls started
    pc,                 \* per thread: position in the method it runs
    op,                 \* per thread: the method of its current or last call
    arg,                \* per thread: the handle argument of that call
    params,             \* per thread: the params argument of create_connection
    connection_id,      \* per thread: local connection_id of create_connection
    cursors_to_close,   \* per thread: local cursors_to_close of close_connection
    idx,                \* per thread: position of the for loop over cursors_to_close (cursors closed and deleted so far)
    cursor,             \* per thread: local cursor of execute_query / fetch_results
    bcalls,             \* per thread: the backend calls its current call has made so far
    startedAfter,       \* history, per thread: what had happened to the handle argument when the call started (see Before)
    last,               \* history: the call that completed most recently, as its caller saw it
    returned,           \* history: every handle returned by create_connection / create_cursor
    closedOK,           \* history: connection handles for which close_connection returned True
    removed,            \* history: cursor handles deleted from self.cursors
    failedExec,         \* history: cursor handles on which a backend execute raised
    infos,              \* data view: the last get_connection_info results, each with the params its connection was opened with
    executed,           \* data view: the last execute_query call, its arguments and what it passed to the backend execute
    backend_cursor,     \* data view: the backend cursor object: description, result set, rows consumed
    pages,              \* data view: the row lists returned by fetch_results since the last execute
    page                \* data view: the last fetch_results call, its max_rows and its result

vars == <<connections, cursors, connection_params, lock, nextUuid, calls, pc, op, arg,
          params, connection_id, cursors_to_close, idx, cursor, bcalls, startedAfter, last,
          returned, closedOK, removed, failedExec, infos, executed, backend_cursor,
          pages, page>>

registry == <<connections, cursors, connection_params>>

--------------------------------------------------------------------------
\* Strings and handles

None == <<>>
Sep == "_"
\* A handle no create_* call ever returns (the spec's "nonexistent").
Nonexistent == <<"nonexistent">>

\* (fault: every string counts as a match)
StartsWithAny(s, p) == TRUE
\* (fault: receiver and argument exchanged)
StartsWithMut(s, p) == Len(s) <= Len(p) /\ SubSeq(p, 1, Len(s)) = s
\* str.startswith
StartsWith(s, p) == Len(p) <= Len(s) /\ SubSeq(s, 1, Len(p)) = p

\* (fault: the value is drawn once and reused)
uuid4Mut(n) == ToString(1)
\* str(uuid.uuid4()): the n-th value drawn
uuid4(n) == ToString(n)

\* f"{connection_id}_{str(uuid.uuid4())}"
CursorId(cid, n) == cid \o <<Sep>> \o <<uuid4(n)>>

Range(s) == {s[i] : i \in 1..Len(s)}
\* del d[k] on an ordered dict
Del(s, k) == SelectSeq(s, LAMBDA x : x # k)

\* The parameters a caller may pass to create_connection.
ParamsChoices == {[host |-> "db1", user |-> "alice", password |-> "secret"]}

Ops == {"create_connection", "close_connection", "create_cursor", "close_cursor",
        "execute_query", "fetch_results", "get_connection_info"}
ConnOps == {"close_connection", "create_cursor", "get_connection_info"}
CursorOps == {"close_cursor", "execute_query", "fetch_results"}

ConnHandles == {h \in returned : Len(h) = 1}
CursorHandles == {h \in returned : Len(h) = 3}

\* The connection handle a handle was derived from (its first token).
Owner(h) == IF h = None THEN None ELSE <<Head(h)>>

\* The error kinds of the spec, by the raise site of TrinoODBCError:
\*   "ConnectionError"      line 95,  "NotFoundError" lines 140, 183, 233, 273,
\*   "QueryExecutionError"  line 218, "FetchError"    line 259,
\*   "BackendError"         a backend exception that leaves the method unwrapped.

\* A completed call: its method and handle argument, how it ended (result), the handle
\* it returned (retval), the backend calls it made, and what had happened to its handle
\* argument when it started (after).
NoCall == [op |-> "none", arg |-> None, result |-> "none", retval |-> None,
           bcalls |-> <<>>, after |-> {}]

\* No execute_query call has been made yet.
NoExecute == [query |-> "", parameters |-> None, args |-> <<>>]
\* connection.cursor(): a backend cursor that has executed nothing.
NewCursor == [description |-> None, result |-> <<>>, pos |-> 0]
\* No fetch_results call has been made yet.
NoPage == [max_rows |-> 0, rows |-> <<>>, has_more |-> FALSE]

--------------------------------------------------------------------------
Init ==
    /\ connections = {}
    /\ cursors = <<>>
    /\ connection_params = [h \in {} |-> None]
    /\ lock = 0
    /\ nextUuid = 1
    /\ calls = 0
    /\ pc = [t \in Threads |-> "idle"]
    /\ op = [t \in Threads |-> "none"]
    /\ arg = [t \in Threads |-> None]
    /\ params = [t \in Threads |-> None]
    /\ connection_id = [t \in Threads |-> None]
    /\ cursors_to_close = [t \in Threads |-> <<>>]
    /\ idx = [t \in Threads |-> 0]
    /\ cursor = [t \in Threads |-> None]
    /\ bcalls = [t \in Threads |-> <<>>]
    /\ startedAfter = [t \in Threads |-> {}]
    /\ last = NoCall
    /\ returned = {}
    /\ closedOK = {}
    /\ removed = {}
    /\ failedExec = {}
    /\ infos = <<>>
    /\ executed = NoExecute
    /\ backend_cursor = NewCursor
    /\ pages = <<>>
    /\ page = NoPage

locals == <<connection_id, cursors_to_close, idx, cursor>>
history == <<returned, closedOK, removed, failedExec>>
\* The data view: what the methods compute from their arguments and from the backend's
\* answers.  The concurrent registry (Spec) leaves it alone; SpecInfo and SpecCursor run
\* one caller on one connection and one cursor and look at the values.
data == <<infos, executed, backend_cursor, pages, page>>

\* The method ends (return or raise): the caller gets the outcome, and the frame
\* (arguments and locals) goes away.
Finish(t, r, v, bc) ==
    /\ pc' = [pc EXCEPT ![t] = "idle"]
    /\ last' = [op |-> op[t], arg |-> arg[t], result |-> r, retval |-> v,
                bcalls |-> bc, after |-> startedAfter[t]]
    /\ bcalls' = [bcalls EXCEPT ![t] = <<>>]
    /\ startedAfter' = [startedAfter EXCEPT ![t] = {}]
    /\ UNCHANGED calls
    /\ op' = [op EXCEPT ![t] = "none"]
    /\ arg' = [arg EXCEPT ![t] = None]
    /\ params' = [params EXCEPT ![t] = None]
    /\ connection_id' = [connection_id EXCEPT ![t] = None]
    /\ cursors_to_close' = [cursors_to_close EXCEPT ![t] = <<>>]
    /\ idx' = [idx EXCEPT ![t] = 0]
    /\ cursor' = [cursor EXCEPT ![t] = None]
    /\ UNCHANGED data

Goto(t, l) ==
    /\ pc' = [pc EXCEPT ![t] = l]
    /\ UNCHANGED <<op, arg, params, last, startedAfter, calls, data>>

\* (fault: the lock excludes nobody)
CanAcquireMut == TRUE
\* with self.lock: a threading.Lock is entered only when no thread holds it
CanAcquire == lock = 0

\* A call of method m of the backend object named by target.
Backend(t, m, target) == bcalls' = [bcalls EXCEPT ![t] = Append(@, <<m, target>>)]

FirstLabel(o) ==
    CASE o = "create_connection" -> "oc_connect"
      [] o = "close_connection" -> "cc_enter"
      [] o = "create_cursor" -> "ocur"
      [] o = "close_cursor" -> "kc_enter"
      [] o = "execute_query" -> "eq_check"
      [] o = "fetch_results" -> "fr_check"
      [] o = "get_connection_info" -> "gi"

\* What has already happened to handle h: "closed" when close_connection of the
\* connection it belongs to has returned True, "failed" when a backend execute on the
\* cursor it names has raised.
Before(h) ==
    (IF Owner(h) \in closedOK THEN {"closed"} ELSE {}) \cup
    (IF h \in failedExec THEN {"failed"} ELSE {})

\* A request arrives and its route handler calls the registry method on thread t.
Call(t) ==
    /\ pc[t] = "idle"
    /\ calls < MaxCalls
    /\ calls' = calls + 1
    /\ \E o \in Ops :
         /\ op' = [op EXCEPT ![t] = o]
         /\ pc' = [pc EXCEPT ![t] = FirstLabel(o)]
         /\ IF o = "create_connection"
              THEN /\ \E p \in ParamsChoices : params' = [params EXCEPT ![t] = p]
                   /\ arg' = [arg EXCEPT ![t] = None]
              ELSE /\ params' = [params EXCEPT ![t] = None]
                   /\ \E a \in (IF o \in ConnOps THEN ConnHandles ELSE CursorHandles)
                                 \cup {Nonexistent} :
                        arg' = [arg EXCEPT ![t] = a]
    /\ startedAfter' = [startedAfter EXCEPT ![t] = Before(arg'[t])]
    /\ UNCHANGED <<registry, lock, nextUuid, locals, bcalls, last, history, data>>

--------------------------------------------------------------------------
\* create_connection, lines 67-95

\* lines 67-84: the handle is drawn, then trino.dbapi.connect returns a session
create_connection_connect(t) ==
    /\ pc[t] = "oc_connect"
    /\ connection_id' = [connection_id EXCEPT ![t] = <<uuid4(nextUuid)>>]
    /\ nextUuid' = nextUuid + 1
    /\ Backend(t, "connect", <<uuid4(nextUuid)>>)
    /\ Goto(t, "oc_store")
    /\ UNCHANGED <<registry, lock, cursors_to_close, idx, cursor, history>>

\* (fault: the entry is stored before connect is called)
create_connection_fail_stored(t) ==
    /\ pc[t] = "oc_connect"
    /\ nextUuid' = nextUuid + 1
    /\ connections' = connections \cup {<<uuid4(nextUuid)>>}
    /\ Finish(t, "ConnectionError", None, Append(bcalls[t], <<"connect", <<uuid4(nextUuid)>>>>))
    /\ UNCHANGED <<cursors, connection_params, lock, history>>
\* lines 67-84, 93-95: the handle is drawn, then the backend raises
create_connection_fail(t) ==
    /\ pc[t] = "oc_connect"
    /\ nextUuid' = nextUuid + 1
    /\ Finish(t, "ConnectionError", None, Append(bcalls[t], <<"connect", <<uuid4(nextUuid)>>>>))
    /\ UNCHANGED <<registry, lock, history>>

\* lines 86-91: with self.lock, both tables get the entry; the handle is returned
create_connection_store(t) ==
    /\ pc[t] = "oc_store"
    /\ CanAcquire
    /\ connections' = connections \cup {connection_id[t]}
    /\ connection_params' = [h \in DOMAIN connection_params \cup {connection_id[t]} |->
                               IF h = connection_id[t] THEN params[t] ELSE connection_params[h]]
    /\ returned' = returned \cup {connection_id[t]}
    /\ Finish(t, "handle", connection_id[t], bcalls[t])
    /\ UNCHANGED <<cursors, lock, nextUuid, closedOK, removed, failedExec>>

create_connection(t) ==
    \/ create_connection_connect(t)
    \/ create_connection_fail(t)
    \/ create_connection_store(t)

--------------------------------------------------------------------------
\* close_connection, lines 107-126

\* (fault: the loop over cursors_to_close is skipped)
NextCloseMut(t, cs, n) == Backend(t, "close", arg[t]) /\ Goto(t, "cc_conn")
\* The backend call the cascade makes next, after n cursors of list cs are done.
NextClose(t, cs, n) ==
    IF n < Len(cs)
      THEN Backend(t, "close", cs[n + 1]) /\ Goto(t, "cc_cursor")
      ELSE Backend(t, "close", arg[t]) /\ Goto(t, "cc_conn")

\* lines 107-111 and 124-126: the lock is taken; an unknown handle returns False,
\* a known one has its cursors enumerated by prefix and the first close() begins
close_connection_enter(t) ==
    /\ pc[t] = "cc_enter"
    /\ CanAcquire
    /\ IF arg[t] \in connections
         THEN LET cs == SelectSeq(cursors, LAMBDA k : StartsWith(k, arg[t])) IN
              /\ lock' = t
              /\ cursors_to_close' = [cursors_to_close EXCEPT ![t] = cs]
              /\ NextClose(t, cs, 0)
              /\ UNCHANGED <<connection_id, idx, cursor>>
         ELSE /\ Finish(t, "false", None, bcalls[t])
              /\ UNCHANGED lock
    /\ UNCHANGED <<registry, nextUuid, history>>

\* lines 113-115: the cursor's close() returns and its entry is deleted; the loop goes on
close_connection_cursor(t) ==
    /\ pc[t] = "cc_cursor"
    /\ LET k == cursors_to_close[t][idx[t] + 1] IN
         /\ cursors' = Del(cursors, k)
         /\ removed' = removed \cup {k}
    /\ idx' = [idx EXCEPT ![t] = @ + 1]
    /\ NextClose(t, cursors_to_close[t], idx[t] + 1)
    /\ UNCHANGED <<connections, connection_params, lock, nextUuid, connection_id,
                   cursors_to_close, cursor, returned, closedOK, failedExec>>

\* line 114 or 118: the backend close() raises; the with statement releases the lock
\* and the exception leaves the method
close_connection_raise(t) ==
    /\ pc[t] \in {"cc_cursor", "cc_conn"}
    /\ lock' = 0
    /\ Finish(t, "BackendError", None, bcalls[t])
    /\ UNCHANGED <<registry, nextUuid, history>>

\* (fault: the parameters entry is left behind)
close_connection_conn_keeping_params(t) ==
    /\ pc[t] = "cc_conn"
    /\ connections' = connections \ {arg[t]}
    /\ UNCHANGED connection_params
    /\ closedOK' = closedOK \cup {arg[t]}
    /\ lock' = 0
    /\ Finish(t, "true", None, bcalls[t])
    /\ UNCHANGED <<cursors, nextUuid, returned, removed, failedExec>>

\* lines 118-123: the session's close() returns, both entries are deleted, True is returned
close_connection_conn(t) ==
    /\ pc[t] = "cc_conn"
    /\ connections' = connections \ {arg[t]}
    /\ connection_params' = [h \in DOMAIN connection_params \ {arg[t]} |-> connection_params[h]]
    /\ closedOK' = closedOK \cup {arg[t]}
    /\ lock' = 0
    /\ Finish(t, "true", None, bcalls[t])
    /\ UNCHANGED <<cursors, nextUuid, returned, removed, failedExec>>

close_connection(t) ==
    \/ close_connection_enter(t)
    \/ close_connection_cursor(t)
    \/ close_connection_raise(t)
    \/ close_connection_conn(t)

--------------------------------------------------------------------------
\* create_cursor, lines 138-146 (the whole body runs with the lock held)

\* (fault: the membership check of lines 139-140 is missing)
create_cursor_unchecked(t) ==
    /\ pc[t] = "ocur"
    /\ CanAcquire
    /\ nextUuid' = nextUuid + 1
    /\ cursors' = Append(cursors, CursorId(arg[t], nextUuid))
    /\ returned' = returned \cup {CursorId(arg[t], nextUuid)}
    /\ Finish(t, "handle", CursorId(arg[t], nextUuid), Append(bcalls[t], <<"cursor", arg[t]>>))
    /\ UNCHANGED <<connections, connection_params, lock, closedOK, removed, failedExec>>
create_cursor(t) ==
    /\ pc[t] = "ocur"
    /\ CanAcquire
    /\ IF arg[t] \notin connections
         THEN \* lines 139-140
              /\ Finish(t, "NotFoundError", None, bcalls[t])
              /\ UNCHANGED <<cursors, nextUuid, returned>>
         ELSE \* lines 142-143: the id is drawn, then the session is asked for a cursor
              LET cursor_id == CursorId(arg[t], nextUuid)
                  bc == Append(bcalls[t], <<"cursor", arg[t]>>) IN
              /\ nextUuid' = nextUuid + 1
              /\ \/ \* lines 143-146
                    /\ cursors' = Append(cursors, cursor_id)
                    /\ returned' = returned \cup {cursor_id}
                    /\ Finish(t, "handle", cursor_id, bc)
                 \/ \* line 143: cursor() raises; the exception leaves the method
                    /\ Finish(t, "BackendError", None, bc)
                    /\ UNCHANGED <<cursors, returned>>
    /\ UNCHANGED <<connections, connection_params, lock, closedOK, removed, failedExec>>

--------------------------------------------------------------------------
\* close_cursor, lines 158-167

\* (fault: the membership check of line 159 is missing)
close_cursor_enter_unchecked(t) ==
    /\ pc[t] = "kc_enter"
    /\ CanAcquire
    /\ lock' = t
    /\ Backend(t, "close", arg[t])
    /\ Goto(t, "kc_close")
    /\ UNCHANGED <<registry, nextUuid, locals, history>>
\* lines 158-160, 165-167: the lock is taken; an unknown handle returns False,
\* for a known one the cursor's close() begins
close_cursor_enter(t) ==
    /\ pc[t] = "kc_enter"
    /\ CanAcquire
    /\ IF arg[t] \in Range(cursors)
         THEN /\ lock' = t
              /\ Backend(t, "close", arg[t])
              /\ Goto(t, "kc_close")
              /\ UNCHANGED locals
         ELSE /\ Finish(t, "false", None, bcalls[t])
              /\ UNCHANGED lock
    /\ UNCHANGED <<registry, nextUuid, history>>

\* lines 160-164: close() returns, the entry is deleted, True is returned
close_cursor_close(t) ==
    /\ pc[t] = "kc_close"
    /\ cursors' = Del(cursors, arg[t])
    /\ removed' = removed \cup {arg[t]}
    /\ lock' = 0
    /\ Finish(t, "true", None, bcalls[t])
    /\ UNCHANGED <<connections, connection_params, nextUuid, returned, closedOK,
                   failedExec>>

\* (fault: the exception leaves the method with the lock still held)
close_cursor_raise_locked(t) ==
    /\ pc[t] = "kc_close"
    /\ UNCHANGED lock
    /\ Finish(t, "BackendError", None, bcalls[t])
    /\ UNCHANGED <<registry, nextUuid, history>>

\* line 160: close() raises; the with statement releases the lock
close_cursor_raise(t) ==
    /\ pc[t] = "kc_close"
    /\ lock' = 0
    /\ Finish(t, "BackendError", None, bcalls[t])
    /\ UNCHANGED <<registry, nextUuid, history>>

close_cursor(t) ==
    \/ close_cursor_enter(t)
    \/ close_cursor_close(t)
    \/ close_cursor_raise(t)

--------------------------------------------------------------------------
\* execute_query (lines 181-218) and fetch_results (lines 231-259) have the same
\* shape: a membership check under the lock, then, with the lock released, the
\* lookup of the cursor object and the backend call, inside try/except Exception.

\* lines 181-183 / 231-233: with self.lock: if cursor_id not in self.cursors: raise
check_cursor(t, m) ==
    /\ pc[t] = m
    /\ CanAcquire
    /\ IF arg[t] \notin Range(cursors)
         THEN Finish(t, "NotFoundError", None, bcalls[t])
         ELSE Goto(t, IF m = "eq_check" THEN "eq_lookup" ELSE "fr_lookup")
              /\ UNCHANGED <<locals, bcalls>>
    /\ UNCHANGED <<registry, lock, nextUuid, history>>

\* line 186 / 236: cursor = self.cursors[cursor_id], read without the lock; a missing
\* key raises KeyError inside the try, which the except clause wraps (line 218 / 259)
lookup_cursor(t, m, wrapped) ==
    /\ pc[t] = m
    /\ IF arg[t] \in Range(cursors)
         THEN /\ cursor' = [cursor EXCEPT ![t] = arg[t]]
              /\ Goto(t, IF m = "eq_lookup" THEN "eq_call" ELSE "fr_call")
              /\ UNCHANGED <<connection_id, cursors_to_close, idx, bcalls>>
         ELSE Finish(t, wrapped, None, bcalls[t])
    /\ UNCHANGED <<registry, lock, nextUuid, history>>

\* lines 188-191 / 237: the backend call on the cursor object begins
begin_call(t, m, method) ==
    /\ pc[t] = m
    /\ Backend(t, method, cursor[t])
    /\ Goto(t, IF m = "eq_call" THEN "eq_exec" ELSE "fr_fetch")
    /\ UNCHANGED <<registry, lock, nextUuid, locals, history>>

\* lines 193-214: execute returned; the result dictionary is returned
execute_query_return(t) ==
    /\ pc[t] = "eq_exec"
    /\ Finish(t, "ok", None, bcalls[t])
    /\ UNCHANGED <<registry, lock, nextUuid, history>>

\* (fault: the except clause drops the cursor entry)
execute_query_raise_dropping(t) ==
    /\ pc[t] = "eq_exec"
    /\ failedExec' = failedExec \cup {cursor[t]}
    /\ cursors' = Del(cursors, cursor[t])
    /\ Finish(t, "QueryExecutionError", None, bcalls[t])
    /\ UNCHANGED <<connections, connection_params, lock, nextUuid, returned, closedOK, removed>>
\* lines 216-218: execute raised; the exception is wrapped
execute_query_raise(t) ==
    /\ pc[t] = "eq_exec"
    /\ failedExec' = failedExec \cup {cursor[t]}
    /\ Finish(t, "QueryExecutionError", None, bcalls[t])
    /\ UNCHANGED <<registry, lock, nextUuid, returned, closedOK, removed>>

execute_query(t) ==
    \/ check_cursor(t, "eq_check")
    \/ lookup_cursor(t, "eq_lookup", "QueryExecutionError")
    \/ begin_call(t, "eq_call", "execute")
    \/ execute_query_return(t)
    \/ execute_query_raise(t)

\* lines 239-255: fetchmany returned; the page is returned
fetch_results_return(t) ==
    /\ pc[t] = "fr_fetch"
    /\ Finish(t, "ok", None, bcalls[t])
    /\ UNCHANGED <<registry, lock, nextUuid, history>>

\* lines 257-259: fetchmany raised; the exception is wrapped
fetch_results_raise(t) ==
    /\ pc[t] = "fr_fetch"
    /\ Finish(t, "FetchError", None, bcalls[t])
    /\ UNCHANGED <<registry, lock, nextUuid, history>>

fetch_results(t) ==
    \/ check_cursor(t, "fr_check")
    \/ lookup_cursor(t, "fr_lookup", "FetchError")
    \/ begin_call(t, "fr_call", "fetchmany")
    \/ fetch_results_return(t)
    \/ fetch_results_raise(t)

--------------------------------------------------------------------------
\* get_connection_info, lines 271-282 (the whole body runs with the lock held)

\* The marker that replaces the password, line 279.
Marker == "***"

\* (fault: the stored parameters are returned as they are)
GetInfoUnmasked(p) == p
\* lines 275-282: info = params.copy(); if 'password' in info: info['password'] = '***'
GetInfo(p) == [k \in DOMAIN p |-> IF k = "password" THEN Marker ELSE p[k]]

get_connection_info(t) ==
    /\ pc[t] = "gi"
    /\ CanAcquire
    /\ IF arg[t] \notin connections
         THEN Finish(t, "NotFoundError", None, bcalls[t])
         ELSE Finish(t, "info", GetInfo(connection_params[arg[t]]), bcalls[t])
    /\ UNCHANGED <<registry, lock, nextUuid, history>>

--------------------------------------------------------------------------
Next ==
    \E t \in Threads :
       \/ Call(t)
       \/ create_connection(t)
       \/ close_connection(t)
       \/ create_cursor(t)
       \/ close_cursor(t)
       \/ execute_query(t)
       \/ fetch_results(t)
       \/ get_connection_info(t)

Spec == Init /\ [][Next]_vars

\* A step of the method that thread t is running.
Step(t) ==
    \/ create_connection(t)
    \/ close_connection(t)
    \/ create_cursor(t)
    \/ close_cursor(t)
    \/ execute_query(t)
    \/ fetch_results(t)
    \/ get_connection_info(t)

\* Total number of method calls in a behaviour of FairSpec.
MaxFairCalls == 3

NextFair ==
    \E t \in Threads :
       \/ calls < MaxFairCalls /\ Call(t)
       \/ Step(t)

\* The registry when every thread that can take a step eventually takes one: a
\* running thread is scheduled, a backend call returns or raises, and a thread that
\* waits for the lock gets it when it is free again and again.
FairSpec == Init /\ [][NextFair]_vars /\ \A t \in Threads : SF_vars(Step(t))

--------------------------------------------------------------------------
\* The parameters table seen from one caller: create_connection stores the caller's
\* params under the new handle (line 88) and get_connection_info answers from that entry.

\* Number of get_connection_info results kept side by side.
MaxInfos == 2

Hosts == {"db1"}
Users == {"alice", "bob"}
Passwords == {"secret", "hunter2", Marker}
Fields == {"host", "user", "password"}

\* The params objects of the requests: every field is optional (create route, line 301).
InfoParams ==
    {[k \in K |-> r[k]] : r \in [host : Hosts, user : Users, password : Passwords],
                          K \in SUBSET Fields}

\* create_connection(p), lines 86-88, then get_connection_info on the handle it returned.
inspect_connection ==
    /\ \E p \in InfoParams :
         LET stored == p
             shown == [params |-> p, info |-> GetInfo(stored)]
         IN infos' = IF Len(infos) < MaxInfos THEN Append(infos, shown)
                                             ELSE Append(Tail(infos), shown)
    /\ UNCHANGED <<registry, lock, nextUuid, calls, pc, op, arg, params, locals, bcalls,
                   startedAfter, last, history, executed, backend_cursor, pages, page>>

NextInfo == inspect_connection

SpecInfo == Init /\ [][NextInfo]_vars

--------------------------------------------------------------------------
\* One cursor seen from one caller: execute_query, lines 186-214, and fetch_results,
\* lines 236-255, with the values they pass to the backend cursor and get back from it.

\* Largest result set of a query.
MaxRows == 3
\* Number of fetch_results calls after one execute_query.
MaxFetches == 3

\* An optional argument that was given: the value, boxed (None is the empty box).
Some(x) == <<x>>

Queries == {"SELECT 1"}
\* parameters as the route passes it on: absent from the request body, an empty list,
\* or a list of values (lines 364-374).
ParametersChoices == {None, Some(<<>>), Some(<<7>>)}

\* Python truth value of an Optional[List]: None and [] are false.
Truthy(x) == x # None /\ x[1] # <<>>

\* lines 188-191: the argument list of the backend execute call
ExecuteArgs(query, parameters) ==
    IF Truthy(parameters) THEN <<query, parameters[1]>> ELSE <<query>>

\* cursor.description after an execute: None for a statement without a row set, else
\* the column names (col[0] of every column; names may repeat).
Descriptions == {None, <<"a", "b">>, <<"a", "a">>}

\* The n rows of a result set, in the backend's order; the first column tells them apart.
ResultSet(n) == [i \in 1..n |-> <<i, 0>>]

\* dict(zip(column_names, row)): a later column of the same name overwrites an earlier one
Zip(column_names, row) ==
    [c \in Range(column_names) |->
        row[CHOOSE i \in 1..Len(column_names) :
               /\ column_names[i] = c
               /\ \A j \in 1..Len(column_names) : column_names[j] = c => j <= i]]

\* (fault: the loop skips the first row)
ResultRowsSkipping(rows, description) ==
    [i \in 1..(Len(rows) - 1) |->
        IF description # None THEN Zip(description, rows[i + 1]) ELSE rows[i + 1]]
\* lines 240-246: result_rows, one entry per fetched row, in order
ResultRows(rows, description) ==
    [i \in 1..Len(rows) |->
        IF description # None THEN Zip(description, rows[i]) ELSE rows[i]]

\* The number of rows cursor.fetchmany(size) can return when left rows have not been
\* consumed: the next size rows, or all that are left when fewer are.  DB-API does not
\* say what a negative size does (one driver returns no row, another all that are left).
FetchCounts(left, size) ==
    IF size >= 0 THEN {IF size <= left THEN size ELSE left} ELSE 0..left

\* execute_query(cursor_id, q, parameters), lines 186-214: the backend cursor runs the
\* statement and holds its result set.
run_query ==
    /\ \E q \in Queries, parameters \in ParametersChoices, n \in 0..MaxRows,
          d \in Descriptions :
         /\ d = None => n = 0
         /\ executed' = [query |-> q, parameters |-> parameters,
                         args |-> ExecuteArgs(q, parameters)]
         /\ backend_cursor' = [description |-> d, result |-> ResultSet(n), pos |-> 0]
    /\ pages' = <<>>
    /\ page' = NoPage
    /\ UNCHANGED <<registry, lock, nextUuid, calls, pc, op, arg, params, locals, bcalls,
                   startedAfter, last, history, infos>>

\* fetch_results(cursor_id, max_rows), lines 236-255
fetch_page ==
    /\ Len(pages) < MaxFetches
    /\ \E max_rows \in -1..(MaxRows + 1) :
       \E got \in FetchCounts(Len(backend_cursor.result) - backend_cursor.pos, max_rows) :
         LET rows == SubSeq(backend_cursor.result, backend_cursor.pos + 1,
                            backend_cursor.pos + got)
             result_rows == ResultRows(rows, backend_cursor.description)
             has_more == Len(rows) >= max_rows
         IN /\ backend_cursor' = [backend_cursor EXCEPT !.pos = @ + got]
            /\ page' = [max_rows |-> max_rows, rows |-> result_rows, has_more |-> has_more]
            /\ pages' = Append(pages, result_rows)
    /\ UNCHANGED <<registry, lock, nextUuid, calls, pc, op, arg, params, locals, bcalls,
                   startedAfter, last, history, infos, executed>>

NextCursor == run_query \/ fetch_page

SpecCursor == Init /\ [][NextCursor]_vars

--------------------------------------------------------------------------
\* Properties

CursorKeys == Range(cursors)

\* Thread t is inside the cascade of close_connection (lines 110-120), lock held.
InCascade(t) == pc[t] \in {"cc_cursor", "cc_conn"}

\* The cursors in the map that were created under connection handle c.
CursorsOf(c) == {k \in CursorKeys : Owner(k) = c}

\* How a call on a handle that is not in the registry ends.
UnknownResult(o) ==
    CASE o \in {"close_connection", "close_cursor"} -> "false"
      [] OTHER -> "NotFoundError"

\* C1: once close_connection(c) has returned True, c is in neither table, no cursor
\* created under c is in the cursor map, and every call on c or on a cursor of c that
\* started afterwards ended as on an unknown handle (False for the two closes,
\* NotFoundError for the others).
CascadeClose ==
    /\ \A c \in closedOK :
         /\ c \notin connections
         /\ c \notin DOMAIN connection_params
         /\ \A k \in CursorHandles : StartsWith(k, c) => k \notin CursorKeys
    /\ "closed" \in last.after => last.result = UnknownResult(last.op)

\* A close_cursor on a cursor handle returned by create_cursor, started after
\* close_connection of its connection returned True, has returned False.
CascadeCloseWitness ==
    /\ last.op = "close_cursor"
    /\ last.arg \in CursorHandles
    /\ "closed" \in last.after
    /\ last.result = "false"

\* C2: every key of the cursor map was created under a connection handle that is a
\* key of the connection map, in every state, also in the middle of a cascade.
NoDanglingCursor == \A k \in CursorKeys : Owner(k) \in connections

\* A close_connection is in the middle of its cascade while a cursor is in the map.
NoDanglingCursorWitness == \E t \in Threads : pc[t] = "cc_cursor" /\ cursors # <<>>

\* C3: while close_connection(c) is between its enumeration and the removal of c it
\* holds the lock, every cursor of c in the map is one it enumerated and has not yet
\* deleted (so a cursor created before the cascade is in the cascade), and no
\* create_cursor runs; a connection that has been removed has no cursor in the map,
\* and a create_cursor(c) that started after the close returned True raised the
\* not-found error.
AtomicClose ==
    /\ [](\A t \in Threads : InCascade(t) =>
            /\ lock = t
            /\ CursorsOf(arg[t]) =
                 {cursors_to_close[t][i] : i \in (idx[t] + 1)..Len(cursors_to_close[t])})
    /\ [](\A c \in ConnHandles \ connections : CursorsOf(c) = {})
    /\ []((last.op = "create_cursor" /\ "closed" \in last.after)
            => last.result = "NotFoundError")
    /\ [][\A u \in Threads : (pc[u] = "ocur" /\ pc'[u] # "ocur") =>
            ~ \E t \in Threads : InCascade(t)]_vars

\* A create_cursor(c) waits for the lock while close_connection(c) is in its cascade.
AtomicCloseWitness ==
    \E t, u \in Threads : pc[t] = "cc_cursor" /\ pc[u] = "ocur" /\ arg[u] = arg[t]

\* The cursor object on which thread t has a backend call in progress, or None.
InBackend(t) ==
    CASE pc[t] \in {"eq_exec", "fr_fetch"} -> cursor[t]
      [] pc[t] = "cc_cursor" -> cursors_to_close[t][idx[t] + 1]
      [] pc[t] = "kc_close" -> arg[t]
      [] OTHER -> None

\* C4: no two threads have a backend call (execute, fetchmany, close) in progress on
\* the same cursor at the same time.
NoConcurrentBackendCalls ==
    \A t, u \in Threads :
       (t # u /\ InBackend(t) # None /\ InBackend(u) # None) => InBackend(t) # InBackend(u)

\* Some close_connection has deleted at least one cursor of its connection and has
\* not yet removed the connection.
HalfCascaded == \E t \in Threads : InCascade(t) /\ idx[t] > 0

\* Thread u reads self.cursors at line 186 or 236, without the lock.
UnlockedRead(u) == pc[u] \in {"eq_lookup", "fr_lookup"} /\ pc'[u] # pc[u]

\* C5: no operation reads the registry while a cascade is half done (some cursors of
\* c deleted and c, or other cursors of c, still present).
CascadeObservedAtomically ==
    [][\A u \in Threads : UnlockedRead(u) => ~ HalfCascaded]_vars

\* Thread t's call returns a handle in this step.
ReturnsHandle(t) ==
    pc[t] \in {"oc_store", "ocur"} /\ pc'[t] = "idle" /\ last'.result = "handle"

\* C6: a handle returned by create_connection or create_cursor has never been
\* returned before and is not a key of the registry when it is stored; storing it
\* adds one entry to its map and overwrites none.
UniqueHandles ==
    [][\A t \in Threads : ReturnsHandle(t) =>
          /\ last'.retval \notin returned
          /\ last'.retval \notin connections \cup DOMAIN connection_params \cup CursorKeys
          /\ op[t] = "create_connection" =>
               /\ Cardinality(connections') = Cardinality(connections) + 1
               /\ connections \subseteq connections'
          /\ op[t] = "create_cursor" =>
               /\ Len(cursors') = Len(cursors) + 1
               /\ Cardinality(Range(cursors')) = Len(cursors')]_vars

\* Two create_connection calls overlapped and both have returned: the call that drew
\* the first uuid4 value returned last, after the call that drew the second value had
\* stored its entry; the map holds two entries.
UniqueHandlesWitness ==
    /\ last.op = "create_connection"
    /\ last.result = "handle"
    /\ last.retval = <<uuid4(1)>>
    /\ connections = {<<uuid4(1)>>, <<uuid4(2)>>}

\* Thread t's close call finds its handle unknown in this step.
ClosesUnknown(t) ==
    \/ pc[t] = "cc_enter" /\ pc'[t] # "cc_enter" /\ arg[t] \notin connections
    \/ pc[t] = "kc_enter" /\ pc'[t] # "kc_enter" /\ arg[t] \notin CursorKeys

\* C7: close_connection on a handle that is not a key of the connection map, and
\* close_cursor on a handle that is not a key of the cursor map, return False, make
\* no backend call and change neither map nor the parameters table.
CloseUnknownIsNoop ==
    [][\A t \in Threads : ClosesUnknown(t) =>
          /\ pc'[t] = "idle"
          /\ last'.result = "false"
          /\ last'.bcalls = <<>>
          /\ UNCHANGED <<registry, lock>>]_vars

\* A second close_connection of a handle whose first close returned True has returned False.
CloseUnknownIsNoopWitness ==
    /\ last.op = "close_connection"
    /\ "closed" \in last.after
    /\ last.result = "false"

\* C8: create_cursor on a handle that is not a key of the connection map raises the
\* not-found error, makes no backend call and leaves the registry unchanged.
OpenCursorUnknown ==
    [][\A t \in Threads :
          (pc[t] = "ocur" /\ pc'[t] # "ocur" /\ arg[t] \notin connections) =>
             /\ last'.result = "NotFoundError"
             /\ last'.bcalls = <<>>
             /\ UNCHANGED <<registry, nextUuid>>]_vars

\* A create_cursor on the handle "nonexistent" has raised the not-found error.
OpenCursorUnknownWitness ==
    /\ last.op = "create_cursor"
    /\ last.arg = Nonexistent
    /\ last.result = "NotFoundError"

\* C9: a create_connection whose backend connect raises ends with the connection
\* error and leaves both maps and the parameters table unchanged; the handle it had
\* drawn is a key of none of them.
FailedOpenLeavesNoState ==
    [][\A t \in Threads : (pc[t] = "oc_connect" /\ pc'[t] = "idle") =>
          /\ last'.result = "ConnectionError"
          /\ UNCHANGED registry
          /\ <<uuid4(nextUuid)>> \notin connections' \cup DOMAIN connection_params']_vars

\* A create_connection has failed while the registry held a connection with a cursor.
FailedOpenLeavesNoStateWitness ==
    /\ last.op = "create_connection"
    /\ last.result = "ConnectionError"
    /\ connections # {}
    /\ cursors # <<>>

\* C10: an execute_query whose backend execute raises ends with the query execution
\* error and changes no registry entry; a cursor on which execute has failed stays in
\* the cursor map until a close removes it, and a later execute_query on it passes the
\* membership check (it is rejected as unknown only if the cursor has been closed).
FailedExecuteKeepsCursor ==
    /\ [][\A t \in Threads : (pc[t] = "eq_exec" /\ pc'[t] = "idle" /\ last'.result # "ok") =>
             /\ last'.result = "QueryExecutionError"
             /\ UNCHANGED registry]_vars
    /\ [](\A k \in failedExec : k \in CursorKeys \/ k \in removed)
    /\ [][\A t \in Threads :
             (pc[t] = "eq_check" /\ pc'[t] # "eq_check" /\ "failed" \in startedAfter[t]
                /\ arg[t] \notin removed) => pc'[t] = "eq_lookup"]_vars
    /\ []((last.op = "execute_query" /\ "failed" \in last.after /\ last.result = "NotFoundError")
            => last.arg \in removed)

\* An execute_query that started after a failed execute on the same cursor handle has
\* its backend execute in progress.
FailedExecuteKeepsCursorWitness ==
    \E t \in Threads : pc[t] = "eq_exec" /\ "failed" \in startedAfter[t] /\ bcalls[t] # <<>>

\* Thread t reads self.cursors[cursor_id] (line 186 / 236) in this step and the key is
\* not in the map.
LooksUpAbsent(t) ==
    /\ pc[t] \in {"eq_lookup", "fr_lookup"}
    /\ pc'[t] # pc[t]
    /\ arg[t] \notin CursorKeys

\* C13: an execute_query or fetch_results call that finds its cursor handle absent from
\* the cursor map when it looks the cursor object up ends with NotFoundError and has
\* made no backend call.
AbsentCursorIsNotFound ==
    [][\A t \in Threads :
          LooksUpAbsent(t) =>
             /\ pc'[t] = "idle"
             /\ last'.result = "NotFoundError"
             /\ last'.bcalls = <<>>]_vars

\* s1 \o s2 \o ... for a sequence of sequences
RECURSIVE Flatten(_)
Flatten(ss) == IF ss = <<>> THEN <<>> ELSE Head(ss) \o Flatten(Tail(ss))

\* C14: the pages that successive fetch_results calls have returned since the last
\* execute_query, put end to end, are the first rows of that query's result set, in its
\* order, each row once, materialized as fetch_results does; so the pages are
\* consecutive segments that do not overlap and together hold at most n rows.
PagesAreConsecutive ==
    LET all == Flatten(pages)
    IN /\ Len(all) <= Len(backend_cursor.result)
       /\ all = ResultRows(SubSeq(backend_cursor.result, 1, Len(all)),
                           backend_cursor.description)

PagesAreConsecutiveWitness ==
    /\ Len(pages) = 3
    /\ Len(backend_cursor.result) = 3
    /\ backend_cursor.description = <<"a", "b">>
    /\ Len(pages[1]) = 2
    /\ Len(pages[2]) = 1
    /\ pages[2][1]["a"] = 3
    /\ pages[3] = <<>>

\* C15: the backend execute gets a parameter argument exactly when the caller of
\* execute_query gave one: without parameters it gets the query alone, and with a
\* parameter list, empty or not, it gets the query and that list.
ParametersPassedWhenGiven ==
    executed # NoExecute =>
       executed.args = IF executed.parameters = None
                         THEN <<executed.query>>
                         ELSE <<executed.query, executed.parameters[1]>>

\* Thread t's close_connection call ends in this step after it found its handle in
\* the connection map (by return True, line 123, or by a backend close that raises).
CascadeEnds(t) == InCascade(t) /\ pc'[t] = "idle"

\* C16: when a close_connection(c) call that found c ends, either c is in neither
\* table and no cursor of c is in the cursor map, or the three maps are as they were
\* when the call started.  (The call holds the lock from its start to its end, so the
\* maps differ from those at its start by the idx[t] cursors it has deleted.)
NoPartialClose ==
    [][\A t \in Threads :
          CascadeEnds(t) =>
             \/ /\ arg[t] \notin connections'
                /\ arg[t] \notin DOMAIN connection_params'
                /\ \A i \in 1..Len(cursors') : Owner(cursors'[i]) # arg[t]
             \/ /\ idx[t] = 0
                /\ UNCHANGED registry]_vars

\* Thread t takes this step.
Acts(t) == pc'[t] # pc[t] \/ idx'[t] # idx[t]

\* C17: a step that removes a connection handle from the connection map or from the
\* parameters table is a step of a close_connection call on that handle, and a step that
\* removes a cursor handle from the cursor map is a step of a close_cursor call on that
\* handle or of a close_connection call on the connection the cursor was created under.
RemovedOnlyByClose ==
    [][/\ \A c \in (connections \ connections') \cup
                    (DOMAIN connection_params \ DOMAIN connection_params') :
            \E t \in Threads : Acts(t) /\ op[t] = "close_connection" /\ arg[t] = c
       /\ \A k \in CursorKeys \ CursorKeys' :
            \E t \in Threads :
               /\ Acts(t)
               /\ \/ op[t] = "close_cursor" /\ arg[t] = k
                  \/ op[t] = "close_connection" /\ arg[t] = Owner(k)]_vars

\* close_connection on the first connection has returned True, and the second
\* connection and the cursor created under it are still registered.
RemovedOnlyByCloseWitness ==
    /\ last.op = "close_connection"
    /\ last.result = "true"
    /\ last.arg = <<uuid4(1)>>
    /\ connections = {<<uuid4(2)>>}
    /\ DOMAIN connection_params = {<<uuid4(2)>>}
    /\ cursors = <<CursorId(<<uuid4(2)>>, 3)>>

\* The positions of a method at which its thread holds self.lock across a backend
\* close() call (lines 113-118 and 160).
LockHeldAt == {"cc_cursor", "cc_conn", "kc_close"}

\* C18: the lock is held only by a thread that is inside a with self.lock block (so
\* it has been released whenever a method has ended, by return or by exception);
\* whenever some call is in progress, some thread can take a step; and with fair
\* scheduling every call that has started ends.
EveryCallEnds ==
    /\ [](\A t \in Threads : lock = t => pc[t] \in LockHeldAt)
    /\ [](lock \in Threads \cup {0})
    /\ []((\E t \in Threads : pc[t] # "idle") => \E u \in Threads : ENABLED Step(u))
    /\ \A t \in Threads : (pc[t] # "idle") ~> (pc[t] = "idle")

\* A backend close() has raised while its caller held the lock, the lock is free
\* again, and another thread's call is about to take it.
EveryCallEndsWitness ==
    /\ last.op \in {"close_cursor", "close_connection"}
    /\ last.result = "BackendError"
    /\ lock = 0
    /\ \E t \in Threads : pc[t] \in {"cc_enter", "ocur", "kc_enter", "gi", "eq_check", "fr_check"}

\* Thread t calls cursor.execute or cursor.fetchmany (line 189, 191 or 237) in this step.
BeginsCall(t) ==
    /\ pc[t] \in {"eq_call", "fr_call"}
    /\ pc'[t] \in {"eq_exec", "fr_fetch"}

\* C19: no backend execute or fetchmany call begins on a cursor object that the
\* registry has already closed and deleted (by close_cursor or by the cascade of
\* close_connection).
NoCallAfterClose ==
    [][\A t \in Threads : BeginsCall(t) => cursor[t] \notin removed]_vars

\* C20: whenever no thread holds the lock, the connection map and the parameters
\* table have the same keys.
SameKeys == lock = 0 => connections = DOMAIN connection_params

\* One connection has been closed, the close of a second one has ended with a backend
\* error, and the second one is still registered.
SameKeysWitness ==
    /\ lock = 0
    /\ closedOK = {<<uuid4(1)>>}
    /\ last.op = "close_connection"
    /\ last.result = "BackendError"
    /\ connections = {<<uuid4(2)>>}

\* Two params objects that have the same fields, a password among them, and the same
\* value in every field but the password.
DifferOnlyInPassword(p, q) ==
    /\ DOMAIN p = DOMAIN q
    /\ "password" \in DOMAIN p
    /\ p["password"] # q["password"]
    /\ \A k \in DOMAIN p \ {"password"} : p[k] = q[k]

\* C11: what get_connection_info returns has the fields of the params the connection
\* was opened with, the fixed marker in the password field whatever password was
\* supplied, and the supplied value in every other field; two connections opened with
\* params that differ only in the password get identical results.
PasswordMasked ==
    /\ \A i \in 1..Len(infos) :
         /\ DOMAIN infos[i].info = DOMAIN infos[i].params
         /\ \A k \in DOMAIN infos[i].params :
              infos[i].info[k] = IF k = "password" THEN Marker ELSE infos[i].params[k]
    /\ \A i, j \in 1..Len(infos) :
         DifferOnlyInPassword(infos[i].params, infos[j].params)
            => infos[i].info = infos[j].info

PasswordMaskedWitness ==
    /\ Len(infos) = 2
    /\ DifferOnlyInPassword(infos[1].params, infos[2].params)
    /\ "user" \in DOMAIN infos[1].params
    /\ infos[1].params["user"] = "alice"
    /\ infos[1].params["password"] = "secret"
    /\ infos[2].info["password"] = Marker

\* C12: after a fetch_results(k) call, whatever integer k is, at most k rows were
\* returned and has_more is true exactly when the number of rows returned equals k.
FullPageIffMore ==
    page # NoPage =>
       /\ Len(page.rows) <= page.max_rows
       /\ page.has_more <=> (Len(page.rows) = page.max_rows)

\* The same for k >= 0 (with a backend whose fetchmany(k) returns at most k rows).
FullPageIffMoreFromZero ==
    (page # NoPage /\ page.max_rows >= 0) =>
       /\ Len(page.rows) <= page.max_rows
       /\ page.has_more <=> (Len(page.rows) = page.max_rows)

====
